---- MODULE Spec2Model ----
(***************************************************************************)
(* Scam honeypot API (src/app.01.py): the classifier, the extractor and    *)
(* the reply engine as operators over texts, and the request handlers      *)
(* analyze, get_session and delete_session as interleaved steps over the   *)
(* shared conversation_memory.                                             *)
(*                                                                         *)
(* A text is a sequence of one-character strings, so that lower(), the     *)
(* `in` substring test and the regular expressions are computed character  *)
(* by character as Python computes them.                                   *)
(***************************************************************************)
EXTENDS Integers, Sequences, FiniteSets, TLC

\* ---------------------------------------------------------------- bounds

\* Calls (requests in flight) in a run of the server.
NumCalls == 2
\* A generated text is the concatenation of at most MaxFrags fragments.
MaxFrags == 2
\* conversationHistory lengths 0..MaxHistory are tried on the pure functions.
MaxHistory == 2

\* ------------------------------------------------------------ characters

Digit == {"0","1","2","3","4","5","6","7","8","9"}

UpperChars == <<"A","B","C","D","E","F","G","H","I","J","K","L","M",
                "N","O","P","Q","R","S","T","U","V","W","X","Y","Z">>

LowerChars == <<"a","b","c","d","e","f","g","h","i","j","k","l","m",
                "n","o","p","q","r","s","t","u","v","w","x","y","z">>

Letter == {UpperChars[i] : i \in 1..26} \cup {LowerChars[i] : i \in 1..26}

\* \w of Python's re on the characters used here.
WordChar == Letter \cup Digit \cup {"_"}

\* \s of Python's re on the characters used here.
Whitespace == {" ", "\t", "\n"}

\* str.lower() on one character.
LowerChar(c) ==
    IF \E i \in 1..26 : UpperChars[i] = c
    THEN LowerChars[CHOOSE i \in 1..26 : UpperChars[i] = c]
    ELSE c

\* str.lower()
lower(s) == [i \in 1..Len(s) |-> LowerChar(s[i])]

\* p in s  (Python's substring test)
Contains(s, p) ==
    \E i \in 1..(Len(s) - Len(p) + 1) :
        \A j \in 1..Len(p) : s[i + j - 1] = p[j]

\* sum(1 for pattern in patterns if pattern in s)
CountMatches(patterns, s) ==
    Cardinality({i \in 1..Len(patterns) : Contains(s, patterns[i])})

\* any(word in s for word in words)
AnyIn(words, s) == \E i \in 1..Len(words) : Contains(s, words[i])

\* ''.join(strs)
RECURSIVE Join(_)
Join(strs) == IF strs = <<>> THEN <<>> ELSE Head(strs) \o Join(Tail(strs))

SeqToSet(q) == {q[i] : i \in 1..Len(q)}

\* list(set(q)): a set fixes no order, so every order is a possible list.
ListOfSet(q) ==
    LET S == SeqToSet(q)
    IN  {l \in [1..Cardinality(S) -> S] :
            \A i, j \in 1..Cardinality(S) : i # j => l[i] # l[j]}

Min(a, b) == IF a <= b THEN a ELSE b

\* ------------------------------------------------------ pattern library

SCAM_KEYWORDS ==
    << <<"u","r","g","e","n","t">>,
       <<"v","e","r","i","f","y">>,
       <<"s","u","s","p","e","n","d","e","d">>,
       <<"a","c","c","o","u","n","t"," ","b","l","o","c","k","e","d">>,
       <<"c","l","i","c","k"," ","h","e","r","e">>,
       <<"c","o","n","f","i","r","m"," ","y","o","u","r">>,
       <<"w","o","n">>,
       <<"l","o","t","t","e","r","y">>,
       <<"p","r","i","z","e">>,
       <<"c","l","a","i","m">>,
       <<"r","e","f","u","n","d">>,
       <<"b","a","n","k"," ","a","c","c","o","u","n","t">>,
       <<"c","a","r","d"," ","d","e","t","a","i","l","s">>,
       <<"c","v","v">>,
       <<"o","t","p">>,
       <<"o","n","e"," ","t","i","m","e"," ","p","a","s","s","w","o","r","d">>,
       <<"e","x","p","i","r","e">>,
       <<"i","m","m","e","d","i","a","t","e","l","y">>,
       <<"a","c","t"," ","n","o","w">>,
       <<"l","i","m","i","t","e","d"," ","t","i","m","e">>,
       <<"c","o","n","g","r","a","t","u","l","a","t","i","o","n","s">>,
       <<"t","a","x"," ","r","e","f","u","n","d">>,
       <<"g","o","v","e","r","n","m","e","n","t">>,
       <<"i","r","s">>,
       <<"r","e","v","e","n","u","e">>,
       <<"p","e","n","a","l","t","y">>,
       <<"a","r","r","e","s","t"," ","w","a","r","r","a","n","t">>,
       <<"l","e","g","a","l"," ","a","c","t","i","o","n">>,
       <<"c","o","u","r","t">>,
       <<"p","o","l","i","c","e">>,
       <<"o","f","f","i","c","e","r">>,
       <<"p","a","y","t","m">>,
       <<"p","h","o","n","e","p","e">>,
       <<"g","p","a","y">>,
       <<"u","p","i">>,
       <<"t","r","a","n","s","f","e","r"," ","m","o","n","e","y">>,
       <<"u","p","d","a","t","e"," ","k","y","c">>,
       <<"k","y","c"," ","p","e","n","d","i","n","g">>,
       <<"l","i","n","k"," ","a","a","d","h","a","r">>,
       <<"p","a","n"," ","c","a","r","d">>,
       <<"c","o","v","i","d"," ","r","e","l","i","e","f">>,
       <<"s","t","i","m","u","l","u","s">>,
       <<"b","e","n","e","f","i","c","i","a","r","y">>,
       <<"i","n","h","e","r","i","t","a","n","c","e">>,
       <<"n","i","g","e","r","i","a","n"," ","p","r","i","n","c","e">>,
       <<"b","i","t","c","o","i","n">>,
       <<"i","n","v","e","s","t","m","e","n","t"," ","o","p","p","o","r","t","u","n","i","t","y">>,
       <<"d","o","u","b","l","e"," ","y","o","u","r"," ","m","o","n","e","y">>,
       <<"g","u","a","r","a","n","t","e","e","d"," ","r","e","t","u","r","n","s">>,
       <<"r","i","s","k"," ","f","r","e","e">> >>

SAFE_INDICATORS ==
    << <<"h","e","l","l","o">>,
       <<"h","o","w"," ","a","r","e"," ","y","o","u">>,
       <<"g","o","o","d"," ","m","o","r","n","i","n","g">>,
       <<"g","o","o","d"," ","e","v","e","n","i","n","g">>,
       <<"t","h","a","n","k"," ","y","o","u">>,
       <<"t","h","a","n","k","s">>,
       <<"o","k","a","y">>,
       <<"y","e","s">>,
       <<"n","o">>,
       <<"b","y","e">> >>

urgency_patterns ==
    << <<"u","r","g","e","n","t">>,
       <<"i","m","m","e","d","i","a","t","e">>,
       <<"n","o","w">>,
       <<"q","u","i","c","k","l","y">>,
       <<"a","s","a","p">>,
       <<"e","x","p","i","r","e">> >>

financial_patterns ==
    << <<"s","e","n","d"," ","m","o","n","e","y">>,
       <<"t","r","a","n","s","f","e","r">>,
       <<"p","a","y">>,
       <<"p","a","y","m","e","n","t">>,
       <<"d","e","p","o","s","i","t">>,
       <<"a","c","c","o","u","n","t"," ","n","u","m","b","e","r">> >>

info_patterns ==
    << <<"p","a","s","s","w","o","r","d">>,
       <<"p","i","n">>,
       <<"o","t","p">>,
       <<"c","v","v">>,
       <<"c","a","r","d"," ","n","u","m","b","e","r">>,
       <<"s","o","c","i","a","l"," ","s","e","c","u","r","i","t","y">>,
       <<"a","a","d","h","a","r">> >>

upi_banks ==
    << <<"p","a","y","t","m">>,
       <<"y","b","l">>,
       <<"o","k","a","x","i","s">>,
       <<"o","k","s","b","i">>,
       <<"a","x","l">>,
       <<"a","i","r","t","e","l">>,
       <<"f","b","l">>,
       <<"i","b","l">>,
       <<"u","p","i">> >>

\* ------------------------------------------------------- scam detection

\* total_scam_indicators = scam_matches + urgency_score
\*                         + financial_score * 2 + info_score * 3
total_scam_indicators(text_lower) ==
    CountMatches(SCAM_KEYWORDS, text_lower)
    + CountMatches(urgency_patterns, text_lower)
    + CountMatches(financial_patterns, text_lower) * 2
    + CountMatches(info_patterns, text_lower) * 3

\* The first branch's confidence with the cap at 99 left out.
HighConfidenceUncapped(total) == 85 + total * 2

\* confidence = min(85 + total_scam_indicators * 2, 99)
HighConfidence(total) == Min(85 + total * 2, 99)

\* detect_scam(text, conversation_history) -> (fraud_status, confidence)
detect_scam(text, conversation_history) ==
    LET text_lower   == lower(text)
        scam_matches == CountMatches(SCAM_KEYWORDS, text_lower)
        safe_matches == CountMatches(SAFE_INDICATORS, text_lower)
        total        == total_scam_indicators(text_lower)
    IN  IF total >= 5
        THEN [fraud_status |-> "Fraud", confidence |-> HighConfidence(total)]
        ELSE IF total >= 2
        THEN [fraud_status |-> "Fraud", confidence |-> 60 + total * 5]
        ELSE IF safe_matches > scam_matches /\ total = 0
        THEN [fraud_status |-> "Safe", confidence |-> 80]
        ELSE [fraud_status |-> "Unknown",
              confidence   |-> 40 + scam_matches * 10]

\* ----------------------------------------------- regular expressions

\* Whether position i of s holds a character of class C.
InClassAt(s, i, C) == i >= 1 /\ i <= Len(s) /\ s[i] \in C

\* \b between positions i-1 and i: exactly one side is a word character.
Boundary(s, i) == InClassAt(s, i - 1, WordChar) # InClassAt(s, i, WordChar)

\* The length of the longest run of characters of class C starting at i.
RECURSIVE RunLen(_, _, _)
RunLen(s, i, C) == IF InClassAt(s, i, C) THEN 1 + RunLen(s, i + 1, C) ELSE 0

\* Whether the literal lit stands at position i of s.
LitAt(s, i, lit) ==
    /\ i >= 1
    /\ i + Len(lit) - 1 <= Len(s)
    /\ \A j \in 1..Len(lit) : s[i + j - 1] = lit[j]

MaxOf(S) == CHOOSE m \in S : \A k \in S : k <= m

\* upi_pattern = r'\b[\w\.-]+@[\w\.-]+\b' : the length matched at i, 0 for none.
\* '@' is outside the class, so the first run is taken whole; the second run
\* backtracks from its longest length to the longest one ending at a \b.
UpiClass == WordChar \cup {".", "-"}

UpiMatchLen(s, i) ==
    LET run1 == RunLen(s, i, UpiClass)
        at   == i + run1
        run2 == RunLen(s, at + 1, UpiClass)
        ends == {k \in 1..run2 : Boundary(s, at + 1 + k)}
    IN  IF Boundary(s, i) /\ run1 >= 1 /\ LitAt(s, at, <<"@">>) /\ ends # {}
        THEN run1 + 1 + MaxOf(ends)
        ELSE 0

\* phone_pattern = r'(?:\+91[-\s]?)?[6-9]\d{9}' : the length matched at i.
PhoneCoreAt(s, i) ==
    /\ InClassAt(s, i, {"6","7","8","9"})
    /\ \A k \in 1..9 : InClassAt(s, i + k, Digit)

PhoneMatchLen(s, i) ==
    LET prefix == LitAt(s, i, <<"+","9","1">>)
    IN  IF prefix /\ InClassAt(s, i + 3, {"-"} \cup Whitespace)
                  /\ PhoneCoreAt(s, i + 4)
        THEN 14
        ELSE IF prefix /\ PhoneCoreAt(s, i + 3)
        THEN 13
        ELSE IF PhoneCoreAt(s, i)
        THEN 10
        ELSE 0

\* url_pattern = r'https?://[^\s<>"{}|\\^`\[\]]+' : the length matched at i.
\* (The excluded backquote has no string literal here; no text of the model
\* holds one.)
UrlExcluded == Whitespace \cup {"<", ">", "\"", "{", "}", "|", "\\", "^", "[", "]"}

RECURSIVE UrlRunLen(_, _)
UrlRunLen(s, i) ==
    IF i <= Len(s) /\ s[i] \notin UrlExcluded THEN 1 + UrlRunLen(s, i + 1) ELSE 0

UrlMatchLen(s, i) ==
    LET http  == LitAt(s, i, <<"h","t","t","p">>)
        sLen  == IF LitAt(s, i + 4, <<"s">>) THEN 1 ELSE 0
        slash == i + 4 + sLen
        run   == UrlRunLen(s, slash + 3)
    IN  IF http /\ LitAt(s, slash, <<":","/","/">>) /\ run >= 1
        THEN 4 + sLen + 3 + run
        ELSE 0

\* bank_pattern = r'\b\d{9,18}\b' : the length matched at i. \d{9,18} is
\* greedy and backtracks to the longest length in 9..18 ending at a \b.
BankMatchLen(s, i) ==
    LET run  == Min(RunLen(s, i, Digit), 18)
        ends == {k \in 9..run : Boundary(s, i + k)}
    IN  IF Boundary(s, i) /\ ends # {} THEN MaxOf(ends) ELSE 0

\* re.findall(pattern, s): the non-overlapping matches, left to right.
RECURSIVE UpiFindAll(_, _)
UpiFindAll(s, i) ==
    IF i > Len(s) THEN <<>>
    ELSE LET n == UpiMatchLen(s, i)
         IN  IF n > 0
             THEN <<SubSeq(s, i, i + n - 1)>> \o UpiFindAll(s, i + n)
             ELSE UpiFindAll(s, i + 1)

RECURSIVE PhoneFindAll(_, _)
PhoneFindAll(s, i) ==
    IF i > Len(s) THEN <<>>
    ELSE LET n == PhoneMatchLen(s, i)
         IN  IF n > 0
             THEN <<SubSeq(s, i, i + n - 1)>> \o PhoneFindAll(s, i + n)
             ELSE PhoneFindAll(s, i + 1)

RECURSIVE UrlFindAll(_, _)
UrlFindAll(s, i) ==
    IF i > Len(s) THEN <<>>
    ELSE LET n == UrlMatchLen(s, i)
         IN  IF n > 0
             THEN <<SubSeq(s, i, i + n - 1)>> \o UrlFindAll(s, i + n)
             ELSE UrlFindAll(s, i + 1)

RECURSIVE BankFindAll(_, _)
BankFindAll(s, i) ==
    IF i > Len(s) THEN <<>>
    ELSE LET n == BankMatchLen(s, i)
         IN  IF n > 0
             THEN <<SubSeq(s, i, i + n - 1)>> \o BankFindAll(s, i + n)
             ELSE BankFindAll(s, i + 1)

\* ---------------------------------------------- intelligence extraction

\* [upi for upi in upi_matches if any(bank in upi.lower() for bank in [...])]
UpiIds(text) ==
    LET IsHandle(upi) == AnyIn(upi_banks, lower(upi))
    IN  SelectSeq(UpiFindAll(text, 1), IsHandle)

\* The bank-account filter with the phone numbers left in.
BankAccountsUnfiltered(potential_accounts, phoneNumbers) ==
    LET Keep(acc) == Len(acc) >= 9
    IN  SelectSeq(potential_accounts, Keep)

\* [acc for acc in potential_accounts
\*      if len(acc) >= 9 and acc not in ''.join(intelligence['phoneNumbers'])]
BankAccounts(potential_accounts, phoneNumbers) ==
    LET joined    == Join(phoneNumbers)
        Keep(acc) == Len(acc) >= 9 /\ ~Contains(joined, acc)
    IN  SelectSeq(potential_accounts, Keep)

\* [keyword for keyword in SCAM_KEYWORDS if keyword in text_lower]
SuspiciousKeywords(text) ==
    LET text_lower == lower(text)
        Found(keyword) == Contains(text_lower, keyword)
    IN  SelectSeq(SCAM_KEYWORDS, Found)

\* extract_intelligence(text): the bundles the call can return, one for each
\* order list(set(...)) can give phoneNumbers and phishingLinks.
extract_intelligence(text) ==
    { [bankAccounts       |-> BankAccounts(BankFindAll(text, 1), phones),
       upiIds             |-> UpiIds(text),
       phishingLinks      |-> links,
       phoneNumbers       |-> phones,
       suspiciousKeywords |-> SuspiciousKeywords(text)] :
         phones \in ListOfSet(PhoneFindAll(text, 1)),
         links  \in ListOfSet(UrlFindAll(text, 1)) }

\* ------------------------------------------------------ reply generation

\* The reply of the external text-completion service, when it answers:
\* response.choices[0].message.content.strip(), a text the code does not choose.
COMPLETION_REPLY == "<completion>"

continuation_responses ==
    << "I see... can you tell me more about this?",
       "Okay, I'm listening. What should I do next?",
       "I'm not sure I understand. Can you explain again?",
       "Hmm, this sounds important. Give me a moment to process this.",
       "Wait, let me get my reading glasses. Can you repeat that?",
       "I want to help, but I need to understand better. What exactly do you need from me?" >>

OPENING_REPLY == "Hello? Who is this?"

ACCOUNT_REPLY ==
    "Oh no, really? My account is blocked? What do I need to do? I'm not very good with these things..."

OTP_REPLY ==
    "You need my OTP? Is that safe? I just got a message... should I share it with you? I'm a bit confused."

MONEY_REPLY ==
    "Send money? How much? Where do I send it? Can you explain the process? I've never done this before."

PRIZE_REPLY ==
    "Really? I won something? That's amazing! What did I win? What do I need to do to claim it?"

LINK_REPLY ==
    "You want me to click a link? I'm on my phone right now. Can you send it again? What will happen when I click it?"

KYC_REPLY ==
    "Update my KYC? Is this mandatory? What documents do you need? Can I do this later?"

URGENCY_REPLY ==
    "Oh, it's urgent? I'm a bit busy right now. How much time do I have? What happens if I don't do it immediately?"

account_words == << <<"a","c","c","o","u","n","t">>, <<"v","e","r","i","f","y">>,
                    <<"s","u","s","p","e","n","d","e","d">>, <<"b","l","o","c","k","e","d">> >>

otp_words == << <<"o","t","p">>, <<"p","a","s","s","w","o","r","d">>,
                <<"p","i","n">>, <<"c","v","v">> >>

money_words == << <<"s","e","n","d"," ","m","o","n","e","y">>, <<"t","r","a","n","s","f","e","r">>,
                  <<"p","a","y","m","e","n","t">>, <<"d","e","p","o","s","i","t">> >>

prize_words == << <<"w","o","n">>, <<"p","r","i","z","e">>, <<"l","o","t","t","e","r","y">>,
                  <<"c","o","n","g","r","a","t","u","l","a","t","i","o","n","s">> >>

link_words == << <<"h","t","t","p">>, <<"c","l","i","c","k">> >>

kyc_words == << <<"k","y","c">>, <<"a","a","d","h","a","r">>, <<"p","a","n">>,
                <<"d","o","c","u","m","e","n","t">> >>

urgency_words == << <<"u","r","g","e","n","t">>, <<"i","m","m","e","d","i","a","t","e","l","y">>,
                    <<"e","x","p","i","r","e">>, <<"l","i","m","i","t","e","d"," ","t","i","m","e">> >>

\* The rule-based replies with the OTP rule tried before the account rule.
RuleBasedReplyOtpFirst(message_text, conversation_history) ==
    LET text_lower == lower(message_text)
    IN  IF Len(conversation_history) = 0 THEN OPENING_REPLY
        ELSE IF AnyIn(otp_words, text_lower) THEN OTP_REPLY
        ELSE IF AnyIn(account_words, text_lower) THEN ACCOUNT_REPLY
        ELSE IF AnyIn(money_words, text_lower) THEN MONEY_REPLY
        ELSE IF AnyIn(prize_words, text_lower) THEN PRIZE_REPLY
        ELSE IF AnyIn(link_words, text_lower) THEN LINK_REPLY
        ELSE IF AnyIn(kyc_words, text_lower) THEN KYC_REPLY
        ELSE IF AnyIn(urgency_words, text_lower) THEN URGENCY_REPLY
        ELSE continuation_responses[
                 (Len(conversation_history) % Len(continuation_responses)) + 1]

\* generate_ai_reply, the rule-based responses: the first rule that matches.
RuleBasedReply(message_text, conversation_history) ==
    LET text_lower == lower(message_text)
    IN  IF Len(conversation_history) = 0 THEN OPENING_REPLY
        ELSE IF AnyIn(account_words, text_lower) THEN ACCOUNT_REPLY
        ELSE IF AnyIn(otp_words, text_lower) THEN OTP_REPLY
        ELSE IF AnyIn(money_words, text_lower) THEN MONEY_REPLY
        ELSE IF AnyIn(prize_words, text_lower) THEN PRIZE_REPLY
        ELSE IF AnyIn(link_words, text_lower) THEN LINK_REPLY
        ELSE IF AnyIn(kyc_words, text_lower) THEN KYC_REPLY
        ELSE IF AnyIn(urgency_words, text_lower) THEN URGENCY_REPLY
        ELSE continuation_responses[
                 (Len(conversation_history) % Len(continuation_responses)) + 1]

\* generate_ai_reply(message_text, conversation_history, fraud_status) under
\* the configured key: the replies the call can return. With a key set the
\* completion service answers, or fails and the rules answer.
generate_ai_reply(message_text, conversation_history, fraud_status, key) ==
    IF key # ""
    THEN {COMPLETION_REPLY, RuleBasedReply(message_text, conversation_history)}
    ELSE {RuleBasedReply(message_text, conversation_history)}

\* ------------------------------------------------------- JSON values

\* A JSON value with its Python type: dict, str, list, int or None.
JDict(r) == [type |-> "dict", val |-> r]
JStr(s)  == [type |-> "str",  val |-> s]
JList(q) == [type |-> "list", val |-> q]
JInt(n)  == [type |-> "int",  val |-> n]
JNull    == [type |-> "null", val |-> 0]

\* {}: the dict with no key.
EmptyDict == JDict([k \in {} |-> JNull])

\* d.get(key, default) on a dict
Get(d, key, default) == IF key \in DOMAIN d.val THEN d.val[key] ELSE default

\* ------------------------------------------------------- requests

VALID_API_KEY == "demo123"

TEXT_OTP_PHONE   == <<"o","t","p"," ","9","8","7","6","5","4","3","2","1","0">>
TEXT_OTP_NOW     == <<"s","e","n","d"," ","o","t","p"," ","n","o","w">>
TEXT_HELLO_PHONE == <<"h","e","l","l","o"," ","9","8","7","6","5","4","3","2","1","0">>
TEXT_BARE        == <<"t","e","x","t"," ","m","e">>
TEXT_HI          == <<"h","i">>

\* One earlier turn of a conversationHistory.
HistoryMessage == JDict([sender |-> JStr(<<"u","s","e","r">>), text |-> JStr(TEXT_HI)])

AnalyzeRequests ==
    { \* Fraud with a phone number, first message of session s1
      [route |-> "analyze", api_key |-> VALID_API_KEY,
       data |-> JDict([message   |-> JDict([text |-> JStr(TEXT_OTP_PHONE)]),
                       sessionId |-> JStr("s1")])],
      \* Fraud with suspicious keywords and nothing else
      [route |-> "analyze", api_key |-> VALID_API_KEY,
       data |-> JDict([message   |-> JDict([text |-> JStr(TEXT_OTP_NOW)]),
                       sessionId |-> JStr("s1"),
                       conversationHistory |-> JList(<<HistoryMessage, HistoryMessage>>)])],
      \* Safe with a phone number, no sessionId
      [route |-> "analyze", api_key |-> VALID_API_KEY,
       data |-> JDict([message |-> JDict([text |-> JStr(TEXT_HELLO_PHONE)])])],
      \* message without text
      [route |-> "analyze", api_key |-> VALID_API_KEY,
       data |-> JDict([message   |-> JDict([sender |-> JStr(<<"u","s","e","r">>)]),
                       sessionId |-> JStr("s1")])],
      \* message as a bare string that holds the letters "text"
      [route |-> "analyze", api_key |-> VALID_API_KEY,
       data |-> JDict([message |-> JStr(TEXT_BARE), sessionId |-> JStr("s1")])],
      \* message as a bare string
      [route |-> "analyze", api_key |-> VALID_API_KEY,
       data |-> JDict([message |-> JStr(TEXT_HI), sessionId |-> JStr("s1")])],
      \* a top-level text and no message
      [route |-> "analyze", api_key |-> VALID_API_KEY,
       data |-> JDict([text |-> JStr(TEXT_OTP_PHONE), sessionId |-> JStr("s1")])],
      \* no text anywhere
      [route |-> "analyze", api_key |-> VALID_API_KEY, data |-> EmptyDict],
      \* conversationHistory: null
      [route |-> "analyze", api_key |-> VALID_API_KEY,
       data |-> JDict([message   |-> JDict([text |-> JStr(TEXT_OTP_PHONE)]),
                       sessionId |-> JStr("s1"),
                       conversationHistory |-> JNull])],
      \* a message text that is no string
      [route |-> "analyze", api_key |-> VALID_API_KEY,
       data |-> JDict([message   |-> JDict([text |-> JInt(5)]),
                       sessionId |-> JStr("s1")])],
      \* a wrong key
      [route |-> "analyze", api_key |-> "wrong",
       data |-> JDict([message   |-> JDict([text |-> JStr(TEXT_OTP_PHONE)]),
                       sessionId |-> JStr("s1")])] }

DeleteRequests ==
    { [route |-> "delete_session", api_key |-> VALID_API_KEY, session_id |-> "s1"],
      [route |-> "delete_session", api_key |-> "wrong", session_id |-> "s1"] }

Requests == AnalyzeRequests \cup DeleteRequests

\* ------------------------------------------------------- state

VARIABLES
    OPENAI_API_KEY,       \* the configured completion key, "" for none
    conversation_memory,  \* dict: session id -> reference of its message list
    heap,                 \* the message lists, by reference
    pc,                   \* where each call stands in its handler
    req,                  \* the request each call serves
    loc,                  \* analyze's local variables, per call
    post,                 \* the call to the Notifier made by each call
    resp,                 \* the response each call returned
    probe                 \* an input and the results of the pure functions on it

vars == <<OPENAI_API_KEY, conversation_memory, heap, pc, req, loc, post, resp, probe>>

Calls == 1..NumCalls

NoRequest  == [route |-> "none"]
NoResponse == [code |-> 0]
NoPost     == [status |-> "none", attempts |-> 0, total |-> 0]
NoBundle   == [bankAccounts |-> <<>>, upiIds |-> <<>>, phishingLinks |-> <<>>,
               phoneNumbers |-> <<>>, suspiciousKeywords |-> <<>>]
NoLocals   == [ref |-> 0, fraud_status |-> "", confidence |-> 0,
               extracted_intelligence |-> NoBundle, ai_reply |-> ""]
NoProbe    == [stage |-> "none"]

\* ------------------------------------------------------- responses

Unauthorized ==
    [code |-> 401, error |-> "Invalid or missing API key", status |-> "unauthorized"]

InvalidRequest ==
    [code |-> 400, error |-> "Invalid request format",
     message |-> "Required fields: message.text"]

\* analyze's except Exception: str(e) names the exception here.
InternalError(e) == [code |-> 500, error |-> "Internal server error", message |-> e]

Success(l) ==
    [code |-> 200, status |-> "success", reply |-> l.ai_reply,
     fraud_status |-> l.fraud_status, confidence |-> l.confidence,
     extractedIntelligence |-> l.extracted_intelligence]

SessionCleared(sid) == [code |-> 200, message |-> "Session cleared", sessionId |-> sid]

SessionNotFound == [code |-> 404, error |-> "Session not found"]

\* Calls are numbered in the order their requests arrive: call c arrives
\* once call c - 1 has.
Arrived(c) == c \in Calls => pc[c] # "idle"

\* The call returns response r, and its locals are gone.
Finish(c, r) ==
    /\ pc' = [pc EXCEPT ![c] = "done"]
    /\ resp' = [resp EXCEPT ![c] = r]
    /\ loc' = [loc EXCEPT ![c] = NoLocals]

\* ------------------------------------------------------- analyze

\* require_api_key: not api_key or api_key != VALID_API_KEY
Authorized(r) == r.api_key # "" /\ r.api_key = VALID_API_KEY

\* 'text' in message: a key of a dict, a substring of a str, an element of a
\* list; any other type raises TypeError.
HasText(message) ==
    CASE message.type = "dict" -> IF "text" \in DOMAIN message.val THEN "yes" ELSE "no"
      [] message.type = "str"  -> IF Contains(message.val, <<"t","e","x","t">>)
                                  THEN "yes" ELSE "no"
      [] message.type = "list" -> "no"
      [] OTHER                 -> "raise"

\* if not data or 'message' not in data or 'text' not in data['message']
Validate(data) ==
    IF DOMAIN data.val = {} \/ "message" \notin DOMAIN data.val THEN "invalid"
    ELSE CASE HasText(data.val.message) = "no"    -> "invalid"
           [] HasText(data.val.message) = "raise" -> "raise"
           [] OTHER                               -> "valid"

\* The locals analyze reads off its request (lines 291 to 295).
\* session_id = data.get('sessionId', 'default')
session_id(c) == Get(req[c].data, "sessionId", JStr("default")).val
\* message = data['message']
message(c) == req[c].data.val.message
\* conversation_history = data.get('conversationHistory', [])
conversation_history(c) == Get(req[c].data, "conversationHistory", JList(<<>>))
\* message_text = message['text']
message_text(c) == req[c].data.val.message.val.text

\* The call takes an analyze request: the key check, then the parsing up to
\* message_text = message['text'].
ReceiveAnalyze(c) ==
    /\ pc[c] = "idle"
    /\ Arrived(c - 1)
    /\ \E r \in AnalyzeRequests :
        /\ req' = [req EXCEPT ![c] = r]
        /\ IF ~Authorized(r)
           THEN Finish(c, Unauthorized)
           ELSE IF Validate(r.data) = "invalid"
           THEN Finish(c, InvalidRequest)
           ELSE IF Validate(r.data) = "raise" \/ r.data.val.message.type # "dict"
           THEN Finish(c, InternalError("TypeError"))
           ELSE /\ pc' = [pc EXCEPT ![c] = "check"]
                /\ UNCHANGED <<loc, resp>>
    /\ UNCHANGED <<OPENAI_API_KEY, conversation_memory, heap, post, probe>>

\* if session_id not in conversation_memory:
CheckSession(c) ==
    /\ pc[c] = "check"
    /\ pc' = [pc EXCEPT ![c] =
                IF session_id(c) \notin DOMAIN conversation_memory
                THEN "create" ELSE "lookup_inbound"]
    /\ UNCHANGED <<OPENAI_API_KEY, conversation_memory, heap, req, loc, post, resp, probe>>

\* conversation_memory[session_id] = []
CreateSession(c) ==
    /\ pc[c] = "create"
    /\ heap' = Append(heap, <<>>)
    /\ conversation_memory' =
          [k \in DOMAIN conversation_memory \cup {session_id(c)} |->
              IF k = session_id(c) THEN Len(heap) + 1 ELSE conversation_memory[k]]
    /\ pc' = [pc EXCEPT ![c] = "lookup_inbound"]
    /\ UNCHANGED <<OPENAI_API_KEY, req, loc, post, resp, probe>>

\* conversation_memory[session_id] of line 300: the list, or KeyError.
LookupInbound(c) ==
    /\ pc[c] = "lookup_inbound"
    /\ IF session_id(c) \in DOMAIN conversation_memory
       THEN /\ loc' = [loc EXCEPT ![c].ref = conversation_memory[session_id(c)]]
            /\ pc' = [pc EXCEPT ![c] = "append_inbound"]
            /\ UNCHANGED resp
       ELSE Finish(c, InternalError("KeyError"))
    /\ UNCHANGED <<OPENAI_API_KEY, conversation_memory, heap, req, post, probe>>

\* A stored message: the message and the call that appended it.
Inbound(c)    == [by |-> c, kind |-> "inbound", message |-> message(c)]
AiMessage(c)  == [by |-> c, kind |-> "ai",
                  message |-> [sender |-> "ai", text |-> loc[c].ai_reply]]

\* intel_found: upiIds or bankAccounts or phishingLinks or phoneNumbers
intel_found(extracted_intelligence) ==
    \/ extracted_intelligence.upiIds # <<>>
    \/ extracted_intelligence.bankAccounts # <<>>
    \/ extracted_intelligence.phishingLinks # <<>>
    \/ extracted_intelligence.phoneNumbers # <<>>

\* The gate with the classification left out.
NotificationGateAnyLabel(fraud_status, extracted_intelligence) ==
    intel_found(extracted_intelligence)

\* if fraud_status == "Fraud" and intel_found:
NotificationGate(fraud_status, extracted_intelligence) ==
    fraud_status = "Fraud" /\ intel_found(extracted_intelligence)

\* .append(message), then the calls that touch no shared state: detect_scam
\* (text.lower() raises AttributeError on a text that is no str),
\* extract_intelligence and generate_ai_reply (len(None) raises TypeError).
AppendInbound(c) ==
    /\ pc[c] = "append_inbound"
    /\ heap' = [heap EXCEPT ![loc[c].ref] = Append(@, Inbound(c))]
    /\ IF message_text(c).type # "str"
       THEN Finish(c, InternalError("AttributeError"))
       ELSE IF conversation_history(c).type # "list"
       THEN Finish(c, InternalError("TypeError"))
       ELSE LET text    == message_text(c).val
                history == conversation_history(c).val
                d       == detect_scam(text, history)
            IN  /\ \E intel \in extract_intelligence(text),
                      reply \in generate_ai_reply(text, history, d.fraud_status,
                                                  OPENAI_API_KEY) :
                       loc' = [loc EXCEPT ![c].fraud_status = d.fraud_status,
                                          ![c].confidence = d.confidence,
                                          ![c].extracted_intelligence = intel,
                                          ![c].ai_reply = reply]
                /\ pc' = [pc EXCEPT ![c] = "lookup_reply"]
                /\ UNCHANGED resp
    /\ UNCHANGED <<OPENAI_API_KEY, conversation_memory, req, post, probe>>

\* conversation_memory[session_id] of line 328: the list, or KeyError.
LookupReply(c) ==
    /\ pc[c] = "lookup_reply"
    /\ IF session_id(c) \in DOMAIN conversation_memory
       THEN /\ loc' = [loc EXCEPT ![c].ref = conversation_memory[session_id(c)]]
            /\ pc' = [pc EXCEPT ![c] = "append_reply"]
            /\ UNCHANGED resp
       ELSE Finish(c, InternalError("KeyError"))
    /\ UNCHANGED <<OPENAI_API_KEY, conversation_memory, heap, req, post, probe>>

\* .append(ai_message), then the gate of line 331.
AppendReply(c) ==
    /\ pc[c] = "append_reply"
    /\ heap' = [heap EXCEPT ![loc[c].ref] = Append(@, AiMessage(c))]
    /\ pc' = [pc EXCEPT ![c] =
                IF NotificationGate(loc[c].fraud_status, loc[c].extracted_intelligence)
                THEN "count" ELSE "respond"]
    /\ UNCHANGED <<OPENAI_API_KEY, conversation_memory, req, loc, post, resp, probe>>

\* total_messages = len(conversation_memory.get(session_id, [])), then
\* send_final_result up to requests.post(..., timeout=5), which blocks.
CountAndPost(c) ==
    /\ pc[c] = "count"
    /\ post' = [post EXCEPT ![c] =
          [status   |-> "pending",
           attempts |-> post[c].attempts + 1,
           total    |-> IF session_id(c) \in DOMAIN conversation_memory
                        THEN Len(heap[conversation_memory[session_id(c)]])
                        ELSE 0]]
    /\ pc' = [pc EXCEPT ![c] = "post"]
    /\ UNCHANGED <<OPENAI_API_KEY, conversation_memory, heap, req, loc, resp, probe>>

\* What requests.post can do: answer, fail, or run into the timeout.
PostOutcomes == {"ok", "ConnectionError", "Timeout"}

\* send_final_result with the try/except left out: a failure propagates.
send_final_result_uncaught(outcome) == IF outcome = "ok" THEN "returns" ELSE "raises"

\* send_final_result: try: requests.post(...) except Exception: logger.error(...)
send_final_result(outcome) == "returns"

\* requests.post ends and send_final_result with it.
NotifierReturn(c) ==
    /\ pc[c] = "post"
    /\ \E outcome \in PostOutcomes :
        /\ post' = [post EXCEPT ![c].status = IF outcome = "ok" THEN "sent" ELSE "failed"]
        /\ IF send_final_result(outcome) = "returns"
           THEN pc' = [pc EXCEPT ![c] = "respond"] /\ UNCHANGED <<loc, resp>>
           ELSE Finish(c, InternalError(outcome))
    /\ UNCHANGED <<OPENAI_API_KEY, conversation_memory, heap, req, probe>>

\* return jsonify(response), 200
Respond(c) ==
    /\ pc[c] = "respond"
    /\ Finish(c, Success(loc[c]))
    /\ UNCHANGED <<OPENAI_API_KEY, conversation_memory, heap, req, post, probe>>

\* ------------------------------------------------------- delete_session

\* The call takes a DELETE /api/sessions/<session_id> request.
ReceiveDelete(c) ==
    /\ pc[c] = "idle"
    /\ Arrived(c - 1)
    /\ \E r \in DeleteRequests :
        /\ req' = [req EXCEPT ![c] = r]
        /\ IF ~Authorized(r)
           THEN Finish(c, Unauthorized)
           ELSE pc' = [pc EXCEPT ![c] = "delete_check"] /\ UNCHANGED <<loc, resp>>
    /\ UNCHANGED <<OPENAI_API_KEY, conversation_memory, heap, post, probe>>

\* if session_id in conversation_memory:
DeleteCheck(c) ==
    /\ pc[c] = "delete_check"
    /\ IF req[c].session_id \in DOMAIN conversation_memory
       THEN pc' = [pc EXCEPT ![c] = "delete_entry"] /\ UNCHANGED <<loc, resp>>
       ELSE Finish(c, SessionNotFound)
    /\ UNCHANGED <<OPENAI_API_KEY, conversation_memory, heap, req, post, probe>>

\* del conversation_memory[session_id]: KeyError when another call deleted
\* the entry first, which the application's 500 handler answers.
DeleteEntry(c) ==
    /\ pc[c] = "delete_entry"
    /\ IF req[c].session_id \in DOMAIN conversation_memory
       THEN /\ conversation_memory' =
                  [k \in DOMAIN conversation_memory \ {req[c].session_id} |->
                      conversation_memory[k]]
            /\ Finish(c, SessionCleared(req[c].session_id))
       ELSE /\ UNCHANGED conversation_memory
            /\ Finish(c, [code |-> 500, error |-> "Internal server error"])
    /\ UNCHANGED <<OPENAI_API_KEY, heap, req, post, probe>>

\* ------------------------------------------------------- the server

\* The server as it starts with the default configuration: no completion key
\* (os.environ.get('OPENAI_API_KEY', '')) and an empty conversation_memory.
Init ==
    /\ OPENAI_API_KEY = ""
    /\ conversation_memory = [k \in {} |-> 0]
    /\ heap = <<>>
    /\ pc = [c \in Calls |-> "idle"]
    /\ req = [c \in Calls |-> NoRequest]
    /\ loc = [c \in Calls |-> NoLocals]
    /\ post = [c \in Calls |-> NoPost]
    /\ resp = [c \in Calls |-> NoResponse]
    /\ probe = NoProbe

Next ==
    \E c \in Calls :
        \/ ReceiveAnalyze(c)
        \/ CheckSession(c)
        \/ CreateSession(c)
        \/ LookupInbound(c)
        \/ AppendInbound(c)
        \/ LookupReply(c)
        \/ AppendReply(c)
        \/ CountAndPost(c)
        \/ NotifierReturn(c)
        \/ Respond(c)
        \/ ReceiveDelete(c)
        \/ DeleteCheck(c)
        \/ DeleteEntry(c)

Spec == Init /\ [][Next]_vars

\* The server with its calls served one after the other: a request arrives
\* only when every earlier call has returned.
EarlierReturned(c) == \A d \in Calls : d < c => pc[d] = "done"

NextSerial ==
    \E c \in Calls :
        \/ EarlierReturned(c) /\ ReceiveAnalyze(c)
        \/ CheckSession(c)
        \/ CreateSession(c)
        \/ LookupInbound(c)
        \/ AppendInbound(c)
        \/ LookupReply(c)
        \/ AppendReply(c)
        \/ CountAndPost(c)
        \/ NotifierReturn(c)
        \/ Respond(c)
        \/ EarlierReturned(c) /\ ReceiveDelete(c)
        \/ DeleteCheck(c)
        \/ DeleteEntry(c)

SpecSerial == Init /\ [][NextSerial]_vars

\* ------------------------------------------- the pure functions on inputs

Fragments ==
    << <<"o","t","p"," ">>,
       <<"c","v","v"," ">>,
       <<"N","o","w"," ">>,
       <<"p","a","y"," ">>,
       <<"h","e","l","l","o"," ">>,
       <<"9","8","7","6","5","4","3","2","1","0"," ">>,
       <<"+","9","1">>,
       <<"a","@","u","p","i"," ">>,
       <<"h","t","t","p",":","/","/","x",".","c","o"," ">>,
       <<"1","2","3","4","5","6","7","8","9"," ">>,
       <<"w","o","n"," ">>,
       <<"-">>,
       <<"x">> >>

\* The concatenations of at most n fragments.
RECURSIVE TextsOf(_)
TextsOf(n) ==
    IF n = 0 THEN {<<>>}
    ELSE LET shorter == TextsOf(n - 1)
         IN  shorter \cup {t \o Fragments[i] : t \in shorter, i \in 1..Len(Fragments)}

\* "Hello, how are you?"
TEXT_GREETING == <<"H","e","l","l","o",","," ","h","o","w"," ","a","r","e"," ","y","o","u","?">>
\* "Your account is blocked, send your OTP 123456 now"
TEXT_BLOCKED_OTP == <<"Y","o","u","r"," ","a","c","c","o","u","n","t"," ","i","s"," ","b","l","o","c","k","e","d",","," ","s","e","n","d"," ","y","o","u","r"," ","O","T","P"," ","1","2","3","4","5","6"," ","n","o","w">>
\* "pay to rahul@paytm call 9876543210"
TEXT_UPI_PHONE == <<"p","a","y"," ","t","o"," ","r","a","h","u","l","@","p","a","y","t","m"," ","c","a","l","l"," ","9","8","7","6","5","4","3","2","1","0">>
\* "acct 456789012345"
TEXT_ACCOUNT == <<"a","c","c","t"," ","4","5","6","7","8","9","0","1","2","3","4","5">>

ScenarioTexts == {TEXT_GREETING, TEXT_BLOCKED_OTP, TEXT_UPI_PHONE, TEXT_ACCOUNT}

Texts == TextsOf(MaxFrags) \cup ScenarioTexts

\* conversationHistory lists of 0 to MaxHistory earlier messages.
Histories == {[i \in 1..n |-> HistoryMessage] : n \in 0..MaxHistory}

InitPure ==
    /\ OPENAI_API_KEY \in {"", "sk-configured"}
    /\ conversation_memory = [k \in {} |-> 0]
    /\ heap = <<>>
    /\ pc = [c \in Calls |-> "idle"]
    /\ req = [c \in Calls |-> NoRequest]
    /\ loc = [c \in Calls |-> NoLocals]
    /\ post = [c \in Calls |-> NoPost]
    /\ resp = [c \in Calls |-> NoResponse]
    /\ probe \in {[stage |-> "input", text |-> t, history |-> h,
                   classification |-> [fraud_status |-> "", confidence |-> 0],
                   intelligence |-> NoBundle, reply |-> ""] :
                     t \in Texts, h \in Histories}

\* fraud_status, confidence = detect_scam(message_text, conversation_history)
ProbeDetect ==
    /\ probe.stage = "input"
    /\ probe' = [probe EXCEPT !.stage = "detected",
                              !.classification = detect_scam(probe.text, probe.history)]
    /\ UNCHANGED <<OPENAI_API_KEY, conversation_memory, heap, pc, req, loc, post, resp>>

\* extracted_intelligence = extract_intelligence(message_text)
ProbeExtract ==
    /\ probe.stage = "detected"
    /\ \E bundle \in extract_intelligence(probe.text) :
          probe' = [probe EXCEPT !.stage = "extracted", !.intelligence = bundle]
    /\ UNCHANGED <<OPENAI_API_KEY, conversation_memory, heap, pc, req, loc, post, resp>>

\* ai_reply = generate_ai_reply(message_text, conversation_history, fraud_status)
ProbeReply ==
    /\ probe.stage = "extracted"
    /\ \E reply \in generate_ai_reply(probe.text, probe.history,
                                     probe.classification.fraud_status, OPENAI_API_KEY) :
          probe' = [probe EXCEPT !.stage = "replied", !.reply = reply]
    /\ UNCHANGED <<OPENAI_API_KEY, conversation_memory, heap, pc, req, loc, post, resp>>

NextPure == ProbeDetect \/ ProbeExtract \/ ProbeReply

SpecPure == InitPure /\ [][NextPure]_vars

\* ------------------------------------------------------- claims

IsAnalyze(c) == req[c].route = "analyze"

\* The call returned the success result.
Succeeded(c) == IsAnalyze(c) /\ pc[c] = "done" /\ resp[c].code = 200

\* The call ended in an error result.
Failed(c) == pc[c] = "done" /\ resp[c].code # 200

\* The call's request passes the key check and the parsing, so that the call
\* goes on to the session store.
EntersStore(c) ==
    /\ IsAnalyze(c)
    /\ Authorized(req[c])
    /\ Validate(req[c].data) = "valid"
    /\ req[c].data.val.message.type = "dict"

\* send_final_result was invoked by the call.
Notified(c) == post[c].attempts > 0

SessionIds == {"s1", "default"}

\* The stored message sequence of a session.
Stored(sid) ==
    IF sid \in DOMAIN conversation_memory THEN heap[conversation_memory[sid]] ELSE <<>>

IsPrefix(p, q) == Len(p) <= Len(q) /\ \A i \in 1..Len(p) : p[i] = q[i]

NoDuplicates(q) == \A i, j \in 1..Len(q) : i # j => q[i] # q[j]

NoClear == \A c \in Calls : req[c].route # "delete_session"

\* Every analyze call that went to the store of session sid has returned the
\* success result: none is in flight, none failed.
AllSucceeded(sid) ==
    \A c \in Calls :
        (EntersStore(c) /\ session_id(c) = sid) => Succeeded(c)

\* C2: with no session clear, the stored sequence of a session only grows,
\* and once the n analyze calls for it have completed it holds 2n messages.
C2_NoAppendLost ==
    /\ [](\A sid \in SessionIds :
            (NoClear /\ AllSucceeded(sid)) =>
                Len(Stored(sid)) =
                    2 * Cardinality({c \in Calls : EntersStore(c) /\ session_id(c) = sid}))
    /\ [][NoClear => \A sid \in SessionIds : IsPrefix(Stored(sid), Stored(sid)')]_vars

\* C3: in the stored sequence of a session, the inbound message of a call
\* that has not failed is the last message or is directly followed by the AI
\* reply of the same call.
C3_ReplyFollowsInbound ==
    \A sid \in SessionIds :
        LET L == Stored(sid)
        IN  \A i \in 1..Len(L) :
                (L[i].kind = "inbound" /\ ~Failed(L[i].by)) =>
                    \/ i = Len(L)
                    \/ L[i + 1].kind = "ai" /\ L[i + 1].by = L[i].by

\* No message.text in the request: no message, a message given as a bare
\* string, or a message without text.
NoMessageText(data) ==
    \/ "message" \notin DOMAIN data.val
    \/ data.val.message.type = "str"
    \/ data.val.message.type = "dict" /\ "text" \notin DOMAIN data.val.message.val

\* C4: an authorized analyze request without message.text is answered with
\* the success result, never with an error.
C4_MissingTextTolerated ==
    \A c \in Calls :
        (IsAnalyze(c) /\ pc[c] = "done" /\ Authorized(req[c]) /\ NoMessageText(req[c].data))
            => resp[c].code = 200 /\ resp[c].status = "success"

\* C5: the Notifier never delays the response: while the call to the Notifier
\* is pending, the response has been returned or can be returned.
C5_ResponseNotDelayed ==
    \A c \in Calls :
        post[c].status = "pending" => (pc[c] = "done" \/ ENABLED Respond(c))

\* C6: a call whose Notifier call failed returns the success result, the same
\* result as a call with the same request whose Notifier call succeeded; and
\* the failing Notifier call leaves the session store as it was and is not
\* made again: the call goes on to its response.
C6_NotifierFailureHarmless ==
    /\ [](\A c \in Calls :
            (pc[c] = "done" /\ post[c].status = "failed") =>
                /\ resp[c].code = 200 /\ resp[c].status = "success"
                /\ post[c].attempts = 1
                /\ \A d \in Calls :
                      (pc[d] = "done" /\ post[d].status = "sent" /\ req[d] = req[c])
                          => resp[d] = resp[c])
    /\ [][\A c \in Calls :
            (post[c].status = "pending" /\ post'[c].status = "failed") =>
                /\ conversation_memory' = conversation_memory
                /\ heap' = heap
                /\ post'[c].attempts = post[c].attempts
                /\ pc'[c] = "respond"]_vars

\* C6 witness: two calls with the same request have returned, the Notifier
\* call of one failed and that of the other succeeded.
C6_Witness ==
    \E c, d \in Calls :
        /\ pc[c] = "done" /\ post[c].status = "failed"
        /\ pc[d] = "done" /\ post[d].status = "sent"
        /\ req[c] = req[d]

Classified == probe.stage \in {"detected", "extracted", "replied"}

Extracted == probe.stage \in {"extracted", "replied"}

\* C7: the confidence detect_scam returns is an integer from 0 to 100.
C7_ConfidenceBounds ==
    Classified => probe.classification.confidence \in 0..100

\* C7 witness: a text with at least 8 indicators is classified, where the
\* first branch's 85 + 2 * total is capped at 99.
C7_Witness ==
    /\ Classified
    /\ total_scam_indicators(lower(probe.text)) >= 8
    /\ probe.classification.confidence = 99

\* C8: no string of phoneNumbers is also in bankAccounts.
C8_PhoneNotInBankAccounts ==
    Extracted =>
        SeqToSet(probe.intelligence.phoneNumbers)
            \cap SeqToSet(probe.intelligence.bankAccounts) = {}

\* C8 witness: a digit run matched as a phone number was also matched by the
\* bank-account pattern.
C8_Witness ==
    /\ Extracted
    /\ SeqToSet(probe.intelligence.phoneNumbers)
          \cap SeqToSet(BankFindAll(probe.text, 1)) # {}

\* C9: no artifact appears more than once in a field of the bundle.
C9_FieldsDeduplicated ==
    Extracted =>
        /\ NoDuplicates(probe.intelligence.bankAccounts)
        /\ NoDuplicates(probe.intelligence.upiIds)
        /\ NoDuplicates(probe.intelligence.phishingLinks)
        /\ NoDuplicates(probe.intelligence.phoneNumbers)
        /\ NoDuplicates(probe.intelligence.suspiciousKeywords)

\* The reply to "Your account is blocked, send your OTP 123456 now" after a
\* history of length 2 has been generated with no completion key set.
BlockedOtpReplied ==
    /\ probe.stage = "replied"
    /\ probe.text = TEXT_BLOCKED_OTP
    /\ Len(probe.history) = 2
    /\ OPENAI_API_KEY = ""

\* C10 (as amended): that reply is the account/verification canned line.
C10_BlockedOtpGetsAccountReply == BlockedOtpReplied => probe.reply = ACCOUNT_REPLY

\* C10 witness: that reply has been generated.
C10_Witness == BlockedOtpReplied /\ probe.reply # ""

\* C10 as stated: that reply is the OTP canned line.
C10_BlockedOtpGetsOtpReply == BlockedOtpReplied => probe.reply = OTP_REPLY

\* C11: a session clear cannot make analyze fail: a call that has appended
\* its inbound message and goes on to append its AI reply does not end there
\* in an error result.
C11_ClearDoesNotFailAnalyze ==
    [][\A c \in Calls :
          (pc[c] = "lookup_reply" /\ pc'[c] = "done") => resp'[c].code = 200]_vars

\* C12: a call that ended with an error result has left nothing in the store:
\* no stored message sequence holds a message that call appended.
C12_ErrorLeavesStoreUntouched ==
    \A c \in Calls :
        (IsAnalyze(c) /\ Failed(c)) =>
            \A sid \in SessionIds :
                \A i \in 1..Len(Stored(sid)) : Stored(sid)[i].by # c

====
